---- MODULE Spec2Model ----
(***************************************************************************)
(* The Session Context (AuthProvider, src/src/context/AuthContext.tsx) and *)
(* the Daily-Record Context for book reviews (BookReviewProvider,          *)
(* src/unnamed/part_000) as state machines.  The backend collaborator      *)
(* (supabase auth and record store) is the environment: a request is       *)
(* first sent, then answered by the backend, then the awaiting client code *)
(* resumes with the reply.  React state is the program state.              *)
(***************************************************************************)
EXTENDS Naturals, FiniteSets, Sequences, Bags, TLC

VARIABLES
    \* ---- AuthProvider state (AuthContext.tsx:30-33) and the router
    user,                 \* identity (its id) or Null
    isAuthenticated,
    isLoading,
    error,                \* Null or a message
    location,             \* the route last navigated to
    \* ---- Session Context calls in flight
    authPc,               \* per operation: idle / sent / replied / sent2 / replied2
    authMsg,              \* per operation: its arguments and the backend's reply
    \* ---- backend authentication service
    session,              \* the backend's current session (a user id) or Null
    accounts,             \* registered accounts (by email = id)
    profiles,             \* ids with a row in table profiles
    \* ---- BookReviewProvider state (part_000:25-26)
    todayBookReview,
    isLoadingBookReview,
    \* ---- Daily-record calls in flight (bags of messages)
    fetches,
    saves,
    \* ---- backend record store, table book_reviews, and the wall clock
    store,
    today,
    \* ---- what the last step did, when it completed a call
    out

authVars == <<user, isAuthenticated, isLoading, error, location>>
authCalls == <<authPc, authMsg>>
authBackend == <<session, accounts, profiles>>
bookVars == <<todayBookReview, isLoadingBookReview>>
bookCalls == <<fetches, saves>>
bookBackend == <<store, today>>
vars == <<user, isAuthenticated, isLoading, error, location, authPc, authMsg,
          session, accounts, profiles, todayBookReview, isLoadingBookReview,
          fetches, saves, store, today, out>>

\* ------------------------------------------------------------------ values

Null == "null"
Users == {"u1", "u2"}
\* review texts a caller may pass; the empty text is one of them
Contents == {"", "a"}

\* ------------------------------------------------------------------ bounds

\* calendar days the clock runs through
MaxDay == 2
\* daily-record fetches and saves in flight at once
MaxInFlight == 2
\* rows the table book_reviews may grow to
MaxRows == 2
\* Session Context operations in flight at once
MaxAuthInFlight == 2
\* characters in a session's email address
MaxEmailLen == 3

Days == 1..MaxDay

\* ------------------------------------------------------------- toast texts

\* toast.error(text) / toast.success(text); ToastNone: the step showed none
Toast(kind, text) == [kind |-> kind, text |-> text]
ToastNone == Toast("none", "")
ToastLoadFailed == Toast("error", "Failed to load today's book review")
ToastMustLogin == Toast("error", "You must be logged in to save a book review")
ToastSaved == Toast("success", "Book review saved successfully")
ToastSaveFailed == Toast("error", "Failed to save book review")

\* out after a step that completes a call: the operation, what it returned
\* ("throw": it raised) and the toast it showed
Out(op, ev, ret, toast) == [op |-> op, ev |-> ev, ret |-> ret, toast |-> toast]
\* out after any other step
Quiet == Out("-", "-", "-", ToastNone)

\* `x || null` on a string: the empty string is falsy
OrNull(x) == IF x = "" THEN Null ELSE x

\* `a || b` on a string or null
OrElse(a, b) == IF a = Null \/ a = "" THEN b ELSE a

\* --------------------------------------------------- backend record store

\* rows of book_reviews matching .eq('user_id', u).eq('date', d)
Rows(u, d) == {r \in store : r.user_id = u /\ r.date = d}

\* .single(): exactly one row gives that row; none or several give the
\* error code PGRST116 and no data
Single(rows) ==
    IF Cardinality(rows) = 1
    THEN [rows |-> rows, code |-> "none"]
    ELSE [rows |-> {}, code |-> "PGRST116"]

\* a backend failure other than not-found (network, permission, constraint)
OtherError == [rows |-> {}, code |-> "other"]

\* ids are assigned by the backend; rows are never deleted
NewId == Cardinality(store) + 1

\* .insert({user_id, date, review_text})
Insert(u, d, text) ==
    store \cup {[id |-> NewId, user_id |-> u, date |-> d, review_text |-> text]}

\* (mutant) the update is sent without its filter on id
UpdateEveryRow(id, text) ==
    {[r EXCEPT !.review_text = text] : r \in store}

\* .update({review_text}).eq('id', id)
Update(id, text) ==
    {IF r.id = id THEN [r EXCEPT !.review_text = text] ELSE r : r \in store}

\* ------------------------------------------------ BookReviewProvider

InFlightBook == BagCardinality(fetches) + BagCardinality(saves)

\* fetchTodayBookReview up to its await: the select is sent for the user
\* and the day of the call; isLoadingBookReview is not touched
FetchRequest(u) == [user |-> u, date |-> today, phase |-> "sent",
                    data |-> Null, code |-> "none"]

\* useEffect(..., [user]): runs after a render with a new user value
UserEffect(u) ==
    IF u # Null
    THEN /\ fetches' = fetches (+) SetToBag({FetchRequest(u)})
         /\ UNCHANGED <<todayBookReview, isLoadingBookReview>>
    ELSE /\ todayBookReview' = Null
         /\ isLoadingBookReview' = FALSE
         /\ UNCHANGED fetches

\* the select('review_text') ... .single() answered by the backend
FetchReply(m, fail) ==
    LET res == IF fail THEN OtherError ELSE Single(Rows(m.user, m.date))
    IN  [m EXCEPT !.phase = "replied",
                  !.code = res.code,
                  !.data = IF res.rows = {} THEN Null
                           ELSE (CHOOSE r \in res.rows : TRUE).review_text]

FetchBackend ==
    \E m \in BagToSet(fetches) : \E fail \in BOOLEAN :
        /\ m.phase = "sent"
        /\ fetches' = (fetches (-) SetToBag({m})) (+) SetToBag({FetchReply(m, fail)})
        /\ out' = Quiet
        /\ UNCHANGED <<authVars, authCalls, authBackend, bookVars, saves, bookBackend>>

\* (mutant) every error reply is thrown, the not-found code PGRST116 too
FetchThrowsOnNotFound(m) == m.code # "none"

\* whether fetchTodayBookReview throws inside its try block
FetchThrows(m) == m.code # "none" /\ m.code # "PGRST116"

\* (mutant) the answer of a fetch is dropped when the identity is no longer
\* the one the fetch was made for
FetchResumeDropsStale ==
    \E m \in BagToSet(fetches) :
        /\ m.phase = "replied"
        /\ fetches' = fetches (-) SetToBag({m})
        /\ IF m.user # user
           THEN /\ UNCHANGED todayBookReview
                /\ out' = Out("fetch", "done", "void", ToastNone)
           ELSE IF FetchThrows(m)
           THEN /\ UNCHANGED todayBookReview
                /\ out' = Out("fetch", "done", "void", ToastLoadFailed)
           ELSE /\ todayBookReview' = OrNull(m.data)
                /\ out' = Out("fetch", "done", "void", ToastNone)
        /\ isLoadingBookReview' = FALSE
        /\ UNCHANGED <<authVars, authCalls, authBackend, saves, bookBackend>>

\* (mutant) the catch block of the fetch also clears the visible record
FetchResumeClearsOnFailure ==
    \E m \in BagToSet(fetches) :
        /\ m.phase = "replied"
        /\ fetches' = fetches (-) SetToBag({m})
        /\ IF FetchThrows(m)
           THEN /\ todayBookReview' = Null
                /\ out' = Out("fetch", "done", "void", ToastLoadFailed)
           ELSE /\ todayBookReview' = OrNull(m.data)
                /\ out' = Out("fetch", "done", "void", ToastNone)
        /\ isLoadingBookReview' = FALSE
        /\ UNCHANGED <<authVars, authCalls, authBackend, saves, bookBackend>>

\* fetchTodayBookReview after its await: try / catch / finally
FetchResume ==
    \E m \in BagToSet(fetches) :
        /\ m.phase = "replied"
        /\ fetches' = fetches (-) SetToBag({m})
        /\ IF FetchThrows(m)
           THEN /\ UNCHANGED todayBookReview
                /\ out' = Out("fetch", "done", "void", ToastLoadFailed)
           ELSE /\ todayBookReview' = OrNull(m.data)
                /\ out' = Out("fetch", "done", "void", ToastNone)
        /\ isLoadingBookReview' = FALSE
        /\ UNCHANGED <<authVars, authCalls, authBackend, saves, bookBackend>>

\* (mutant) the save goes on without checking for an identity
saveWithoutIdentityCheck ==
    \E review \in Contents :
        /\ InFlightBook < MaxInFlight
        /\ Cardinality(store) + BagCardinality(saves) < MaxRows
        /\ isLoadingBookReview' = TRUE
        /\ saves' = saves (+) SetToBag({[user |-> user, date |-> today,
                                         review |-> review, phase |-> "lookupSent",
                                         existing |-> {}, code |-> "none"]})
        /\ out' = Quiet
        /\ UNCHANGED <<authVars, authCalls, authBackend, todayBookReview,
                       fetches, bookBackend>>

\* saveBookReviewForToday up to its first await
SaveRequest(u, review) ==
    [user |-> u, date |-> today, review |-> review, phase |-> "lookupSent",
     existing |-> {}, code |-> "none"]

\* room: the table can take the row this save may insert
saveWhen(room) ==
    \E review \in Contents :
        IF user = Null
        THEN /\ out' = Out("save", "done", "void", ToastMustLogin)
             /\ UNCHANGED <<authVars, authCalls, authBackend, bookVars, bookCalls,
                            bookBackend>>
        ELSE /\ InFlightBook < MaxInFlight
             /\ room
             /\ isLoadingBookReview' = TRUE
             /\ saves' = saves (+) SetToBag({SaveRequest(user, review)})
             /\ out' = Quiet
             /\ UNCHANGED <<authVars, authCalls, authBackend, todayBookReview,
                            fetches, bookBackend>>

saveBookReviewForToday ==
    saveWhen(Cardinality(store) + BagCardinality(saves) < MaxRows)

\* the select('id') ... .single() as the backend answers it
LookupReply(m, fail) ==
    LET res == IF fail THEN OtherError ELSE Single(Rows(m.user, m.date))
    IN  [m EXCEPT !.code = res.code, !.existing = {r.id : r \in res.rows}]

\* fetchError && fetchError.code !== 'PGRST116'
LookupThrows(m) == m.code # "none" /\ m.code # "PGRST116"

\* (mutant) the catch block also clears the visible record
SaveFailedClearsRecord ==
    /\ out' = Out("save", "done", "throw", ToastSaveFailed)
    /\ isLoadingBookReview' = FALSE
    /\ todayBookReview' = Null

\* the catch and finally blocks of saveBookReviewForToday
SaveFailed ==
    /\ out' = Out("save", "done", "throw", ToastSaveFailed)
    /\ isLoadingBookReview' = FALSE
    /\ UNCHANGED todayBookReview

\* saveBookReviewForToday between its two awaits: the lookup is answered
\* and, unless it failed, the update or the insert is built and sent.  (The
\* reply is read when it is delivered: the code that resumes changes no
\* state before the write is sent, so an earlier read shows nothing more.)
SaveLookupResume ==
    \E m \in BagToSet(saves) : \E fail \in BOOLEAN :
        LET r == LookupReply(m, fail) IN
        /\ m.phase = "lookupSent"
        /\ IF LookupThrows(r)
           THEN /\ saves' = saves (-) SetToBag({m})
                /\ SaveFailed
           ELSE /\ saves' = (saves (-) SetToBag({m}))
                              (+) SetToBag({[r EXCEPT !.phase = "writeSent",
                                                      !.code = "none"]})
                /\ out' = Quiet
                /\ UNCHANGED bookVars
        /\ UNCHANGED <<authVars, authCalls, authBackend, fetches, bookBackend>>

\* (mutant) the lookup's result is ignored: every save inserts
WriteStoreAlwaysInsert(m) == Insert(m.user, m.date, m.review)

\* the row operation chosen at `if (existingEntry)`
WriteStore(m) ==
    IF m.existing # {}
    THEN Update(CHOOSE id \in m.existing : TRUE, m.review)
    ELSE Insert(m.user, m.date, m.review)

\* the update / insert answered by the backend
SaveWriteBackend ==
    \E m \in BagToSet(saves) : \E fail \in BOOLEAN :
        /\ m.phase = "writeSent"
        /\ store' = IF fail THEN store ELSE WriteStore(m)
        /\ saves' = (saves (-) SetToBag({m}))
                      (+) SetToBag({[m EXCEPT !.phase = "writeReplied",
                                              !.code = IF fail THEN "other" ELSE "none"]})
        /\ out' = Quiet
        /\ UNCHANGED <<authVars, authCalls, authBackend, bookVars, fetches, today>>

\* (mutant) a successful save reports success and leaves the visible
\* record to the next fetch
SaveWriteResumeKeepsRecord ==
    \E m \in BagToSet(saves) :
        /\ m.phase = "writeReplied"
        /\ saves' = saves (-) SetToBag({m})
        /\ IF m.code # "none"
           THEN SaveFailed
           ELSE /\ UNCHANGED todayBookReview
                /\ isLoadingBookReview' = FALSE
                /\ out' = Out("save", "done", "void", ToastSaved)
        /\ UNCHANGED <<authVars, authCalls, authBackend, fetches, bookBackend>>

\* saveBookReviewForToday after its second await
SaveWriteResume ==
    \E m \in BagToSet(saves) :
        /\ m.phase = "writeReplied"
        /\ saves' = saves (-) SetToBag({m})
        /\ IF m.code # "none"
           THEN SaveFailed
           ELSE /\ todayBookReview' = m.review
                /\ isLoadingBookReview' = FALSE
                /\ out' = Out("save", "done", "void", ToastSaved)
        /\ UNCHANGED <<authVars, authCalls, authBackend, fetches, bookBackend>>

\* new Date() moves on to the next calendar day
Tick ==
    /\ today < MaxDay
    /\ today' = today + 1
    /\ out' = Quiet
    /\ UNCHANGED <<authVars, authCalls, authBackend, bookVars, bookCalls, store>>

\* ------------------------------------------------------------ AuthProvider

AuthOps == {"checkSession", "login", "signup", "logout", "resetPassword",
            "updatePassword"}

\* error messages of the backend
MsgBackend == "Request failed"
MsgAlreadyRegistered == "User already registered"
MsgNoSession == "Auth session missing!"
\* messages and routes of the application
MsgEmailExists == "This email is already registered. Please log in instead."
MsgUnexpected == "An unexpected error occurred"
RouteLogin == "/login"
RouteDashboard == "/dashboard"
RouteEmailExists == "/login?email-exists=true"

\* a call's arguments and the backend's reply { data, error }; created
\* records whether the backend made a new account for this call
IdleMsg == [email |-> Null, err |-> Null, data |-> Null, created |-> FALSE]

InFlightAuth == Cardinality({op \in AuthOps : authPc[op] # "idle"})

CanStart(op) == authPc[op] = "idle" /\ InFlightAuth < MaxAuthInFlight

Sent(op, email) ==
    /\ authPc' = [authPc EXCEPT ![op] = "sent"]
    /\ authMsg' = [authMsg EXCEPT ![op] = [IdleMsg EXCEPT !.email = email]]

Replied(op, phase, err, data, created) ==
    /\ authPc' = [authPc EXCEPT ![op] = phase]
    /\ authMsg' = [authMsg EXCEPT ![op] = [@ EXCEPT !.err = err, !.data = data,
                                                     !.created = created]]

Returned(op) ==
    /\ authPc' = [authPc EXCEPT ![op] = "idle"]
    /\ authMsg' = [authMsg EXCEPT ![op] = IdleMsg]

\* (mutant) a notification without a session leaves the identity in place
onAuthStateChangeKeepsIdentity(s) ==
    /\ user' = IF s = Null THEN user ELSE s
    /\ isAuthenticated' = (s # Null)
    /\ isLoading' = FALSE

\* (mutant) the callback replaces the user and leaves the authenticated
\* status as it is
onAuthStateChangeUserOnly(s) ==
    /\ user' = s
    /\ UNCHANGED isAuthenticated
    /\ isLoading' = FALSE

\* the onAuthStateChange callback: Identity and authenticated status are
\* derived from the notification's session, and loading ends
onAuthStateChange(s) ==
    /\ user' = s
    /\ isAuthenticated' = (s # Null)
    /\ isLoading' = FALSE

\* a session-change notification that no call of this client caused
\* (INITIAL_SESSION, TOKEN_REFRESHED, a sign-in or sign-out in another tab)
AuthEvent ==
    \E s \in accounts \cup {Null} :
        /\ session' = s
        /\ onAuthStateChange(s)
        /\ out' = Quiet
        /\ UNCHANGED <<error, location, authCalls, accounts, profiles, bookVars,
                       bookCalls, bookBackend>>

\* ---- checkSession (called once when the provider mounts)

GetSessionBackend ==
    \E fail \in BOOLEAN :
        /\ authPc["checkSession"] = "sent"
        /\ IF fail
           THEN Replied("checkSession", "replied", MsgBackend, Null, FALSE)
           ELSE Replied("checkSession", "replied", Null, session, FALSE)
        /\ out' = Quiet
        /\ UNCHANGED <<authVars, authBackend, bookVars, bookCalls, bookBackend>>

\* (mutant) checkSession's catch block records the error and leaves the
\* identity as it is
checkSessionResumeKeepsIdentity ==
    LET m == authMsg["checkSession"] IN
    /\ authPc["checkSession"] = "replied"
    /\ IF m.err # Null
       THEN /\ error' = m.err
            /\ UNCHANGED <<user, isAuthenticated>>
       ELSE /\ user' = m.data
            /\ isAuthenticated' = (m.data # Null)
            /\ UNCHANGED error
    /\ isLoading' = FALSE
    /\ Returned("checkSession")
    /\ out' = Out("checkSession", "done", "void", ToastNone)
    /\ UNCHANGED <<location, authBackend, bookVars, bookCalls, bookBackend>>

\* checkSession after its await: try / catch / finally
checkSessionAfterAwait ==
    LET m == authMsg["checkSession"] IN
    /\ authPc["checkSession"] = "replied"
    /\ IF m.err # Null
       THEN /\ error' = m.err
            /\ user' = Null
            /\ isAuthenticated' = FALSE
       ELSE /\ user' = m.data
            /\ isAuthenticated' = (m.data # Null)
            /\ UNCHANGED error
    /\ isLoading' = FALSE
    /\ Returned("checkSession")
    /\ out' = Out("checkSession", "done", "void", ToastNone)
    /\ UNCHANGED <<location, authBackend>>

\* ... seen by the AuthProvider alone
checkSessionResume ==
    /\ checkSessionAfterAwait
    /\ UNCHANGED <<bookVars, bookCalls, bookBackend>>

\* ---- login

\* (mutant) login starts without clearing the error of an earlier call
loginKeepsError ==
    \E email \in Users :
        /\ CanStart("login")
        /\ isLoading' = TRUE
        /\ Sent("login", email)
        /\ out' = Quiet
        /\ UNCHANGED <<user, isAuthenticated, error, location, authBackend,
                       bookVars, bookCalls, bookBackend>>

login ==
    \E email \in Users :
        /\ CanStart("login")
        /\ isLoading' = TRUE
        /\ error' = Null
        /\ Sent("login", email)
        /\ out' = Quiet
        /\ UNCHANGED <<user, isAuthenticated, location, authBackend, bookVars,
                       bookCalls, bookBackend>>

\* signInWithPassword at the backend: a success starts the session and
\* notifies the subscriber (SIGNED_IN) before the call returns
signInWithPassword ==
    LET m == authMsg["login"] IN
    \E ok \in BOOLEAN :
        /\ authPc["login"] = "sent"
        /\ IF ok /\ m.email \in accounts
           THEN /\ session' = m.email
                /\ onAuthStateChange(m.email)
                /\ Replied("login", "replied", Null, m.email, FALSE)
           ELSE /\ Replied("login", "replied", MsgBackend, Null, FALSE)
                /\ UNCHANGED <<session, user, isAuthenticated, isLoading>>
        /\ out' = Quiet
        /\ UNCHANGED <<error, location, accounts, profiles>>

\* ... seen by the AuthProvider alone
SignInBackend ==
    /\ signInWithPassword
    /\ UNCHANGED <<bookVars, bookCalls, bookBackend>>

\* (mutant) login's catch block reports the failure and raises it again
LoginCatchRethrows(m) ==
    /\ error' = m.err
    /\ out' = Out("login", "done", "throw", Toast("error", OrElse(m.err, "Failed to log in")))
    /\ UNCHANGED location

\* login's catch block
LoginCatch(m) ==
    /\ error' = m.err
    /\ out' = Out("login", "done", "void", Toast("error", OrElse(m.err, "Failed to log in")))
    /\ UNCHANGED location

\* login after its await
loginResume ==
    LET m == authMsg["login"] IN
    /\ authPc["login"] = "replied"
    /\ IF m.err # Null
       THEN LoginCatch(m)
       ELSE /\ IF m.data # Null
               THEN /\ location' = RouteDashboard
                    /\ out' = Out("login", "done", "void", Toast("success", "Welcome back!"))
               ELSE /\ out' = Out("login", "done", "void", ToastNone)
                    /\ UNCHANGED location
            /\ UNCHANGED error
    /\ isLoading' = FALSE
    /\ Returned("login")
    /\ UNCHANGED <<user, isAuthenticated, authBackend, bookVars, bookCalls,
                   bookBackend>>

\* ---- signup

signup ==
    \E email \in Users :
        /\ CanStart("signup")
        /\ isLoading' = TRUE
        /\ error' = Null
        /\ Sent("signup", email)
        /\ out' = Quiet
        /\ UNCHANGED <<user, isAuthenticated, location, authBackend, bookVars,
                       bookCalls, bookBackend>>

\* signUp at the backend: a registered email is refused, a new one gets an
\* account (to be confirmed by email, so no session starts); the backend
\* may also fail, or answer with neither an error nor a user
SignUpBackend ==
    LET m == authMsg["signup"] IN
    \E reply \in {"normal", "failed", "nouser"} :
        /\ authPc["signup"] = "sent"
        /\ IF reply = "failed"
           THEN /\ Replied("signup", "replied", MsgBackend, Null, FALSE)
                /\ UNCHANGED accounts
           ELSE IF reply = "nouser"
           THEN /\ Replied("signup", "replied", Null, Null, FALSE)
                /\ UNCHANGED accounts
           ELSE IF m.email \in accounts
           THEN /\ Replied("signup", "replied", MsgAlreadyRegistered, Null, FALSE)
                /\ UNCHANGED accounts
           ELSE /\ Replied("signup", "replied", Null, m.email, TRUE)
                /\ accounts' = accounts \cup {m.email}
        /\ out' = Quiet
        /\ UNCHANGED <<authVars, session, profiles, bookVars, bookCalls, bookBackend>>

\* (mutant) the special case looks for another wording of the error
IncludesAlreadyExists(msg) == msg = "User already exists"

\* error.message.includes("User already registered")
IncludesAlreadyRegistered(msg) == msg = MsgAlreadyRegistered

\* signup's special case of an email that is already registered
SignupAlreadyRegistered ==
    /\ error' = MsgEmailExists
    /\ location' = RouteEmailExists
    /\ out' = Out("signup", "done", "null", Toast("error", MsgEmailExists))

\* signup's catch block
SignupCatch(m) ==
    /\ error' = OrElse(m.err, MsgUnexpected)
    /\ out' = Out("signup", "done", "null", Toast("error", OrElse(m.err, "Failed to sign up")))
    /\ UNCHANGED location

\* (mutant) the early return of the already-registered case leaves the
\* function without the cleanup that clears the loading flag
signupResumeSkipsCleanup ==
    LET m == authMsg["signup"] IN
    /\ authPc["signup"] = "replied"
    /\ IF m.err = Null /\ m.data # Null
       THEN /\ authPc' = [authPc EXCEPT !["signup"] = "sent2"]
            /\ out' = Quiet
            /\ UNCHANGED <<authVars, authMsg>>
       ELSE /\ IF m.err # Null
               THEN IF m.err = MsgAlreadyRegistered
                    THEN SignupAlreadyRegistered /\ UNCHANGED isLoading
                    ELSE SignupCatch(m) /\ isLoading' = FALSE
               ELSE /\ out' = Out("signup", "done", "null", ToastNone)
                    /\ isLoading' = FALSE
                    /\ UNCHANGED <<error, location>>
            /\ Returned("signup")
            /\ UNCHANGED <<user, isAuthenticated>>
    /\ UNCHANGED <<authBackend, bookVars, bookCalls, bookBackend>>

\* signup between its two awaits
signupResume ==
    LET m == authMsg["signup"] IN
    /\ authPc["signup"] = "replied"
    /\ IF m.err = Null /\ m.data # Null
       THEN \* the profile upsert is sent
            /\ authPc' = [authPc EXCEPT !["signup"] = "sent2"]
            /\ out' = Quiet
            /\ UNCHANGED <<authVars, authMsg>>
       ELSE /\ IF m.err # Null
               THEN IF IncludesAlreadyRegistered(m.err)
                    THEN SignupAlreadyRegistered
                    ELSE SignupCatch(m)
               ELSE /\ out' = Out("signup", "done", "null", ToastNone)
                    /\ UNCHANGED <<error, location>>
            /\ isLoading' = FALSE
            /\ Returned("signup")
            /\ UNCHANGED <<user, isAuthenticated>>
    /\ UNCHANGED <<authBackend, bookVars, bookCalls, bookBackend>>

\* from("profiles").upsert({ id, phone }) at the backend
UpsertBackend ==
    LET m == authMsg["signup"] IN
    \E fail \in BOOLEAN :
        /\ authPc["signup"] = "sent2"
        /\ IF fail
           THEN /\ Replied("signup", "replied2", MsgBackend, m.data, m.created)
                /\ UNCHANGED profiles
           ELSE /\ Replied("signup", "replied2", Null, m.data, m.created)
                /\ profiles' = profiles \cup {m.data}
        /\ out' = Quiet
        /\ UNCHANGED <<authVars, session, accounts, bookVars, bookCalls, bookBackend>>

\* what signup returns once the profile row is written
SignupResult == "newAccount"

\* (mutant) the profile write's error is not looked at
signupResume2IgnoresInsertError ==
    /\ authPc["signup"] = "replied2"
    /\ out' = Out("signup", "done", SignupResult,
                  Toast("success", "Please check your email for a confirmation link to complete your registration."))
    /\ isLoading' = FALSE
    /\ Returned("signup")
    /\ UNCHANGED <<user, isAuthenticated, error, location, authBackend, bookVars,
                   bookCalls, bookBackend>>

\* signup after its second await
signupResume2 ==
    LET m == authMsg["signup"] IN
    /\ authPc["signup"] = "replied2"
    /\ IF m.err # Null
       THEN SignupCatch(m)
       ELSE /\ out' = Out("signup", "done", SignupResult,
                          Toast("success", "Please check your email for a confirmation link to complete your registration."))
            /\ UNCHANGED <<error, location>>
    /\ isLoading' = FALSE
    /\ Returned("signup")
    /\ UNCHANGED <<user, isAuthenticated, authBackend, bookVars, bookCalls,
                   bookBackend>>

\* ---- logout

logout ==
    /\ CanStart("logout")
    /\ isLoading' = TRUE
    /\ Sent("logout", Null)
    /\ out' = Quiet
    /\ UNCHANGED <<user, isAuthenticated, error, location, authBackend, bookVars,
                   bookCalls, bookBackend>>

\* signOut at the backend: a success ends the session and notifies the
\* subscriber (SIGNED_OUT) before the call returns
signOut ==
    \E fail \in BOOLEAN :
        /\ authPc["logout"] = "sent"
        /\ IF fail
           THEN /\ Replied("logout", "replied", MsgBackend, Null, FALSE)
                /\ UNCHANGED <<session, user, isAuthenticated, isLoading>>
           ELSE /\ session' = Null
                /\ onAuthStateChange(Null)
                /\ Replied("logout", "replied", Null, Null, FALSE)
        /\ out' = Quiet
        /\ UNCHANGED <<error, location, accounts, profiles>>

\* ... seen by the AuthProvider alone
SignOutBackend ==
    /\ signOut
    /\ UNCHANGED <<bookVars, bookCalls, bookBackend>>

\* (mutant) logout reports its success and stays on the current route
logoutResumeStays ==
    LET m == authMsg["logout"] IN
    /\ authPc["logout"] = "replied"
    /\ IF m.err # Null
       THEN out' = Out("logout", "done", "void",
                       Toast("error", OrElse(m.err, "Failed to log out")))
       ELSE out' = Out("logout", "done", "void",
                       Toast("success", "You've been logged out"))
    /\ isLoading' = FALSE
    /\ Returned("logout")
    /\ UNCHANGED <<user, isAuthenticated, error, location, authBackend, bookVars,
                   bookCalls, bookBackend>>

logoutResume ==
    LET m == authMsg["logout"] IN
    /\ authPc["logout"] = "replied"
    /\ IF m.err # Null
       THEN /\ out' = Out("logout", "done", "void",
                          Toast("error", OrElse(m.err, "Failed to log out")))
            /\ UNCHANGED location
       ELSE /\ location' = RouteLogin
            /\ out' = Out("logout", "done", "void",
                          Toast("success", "You've been logged out"))
    /\ isLoading' = FALSE
    /\ Returned("logout")
    /\ UNCHANGED <<user, isAuthenticated, error, authBackend, bookVars, bookCalls,
                   bookBackend>>

\* ---- resetPassword

resetPassword ==
    \E email \in Users :
        /\ CanStart("resetPassword")
        /\ isLoading' = TRUE
        /\ error' = Null
        /\ Sent("resetPassword", email)
        /\ out' = Quiet
        /\ UNCHANGED <<user, isAuthenticated, location, authBackend, bookVars,
                       bookCalls, bookBackend>>

ResetPasswordBackend ==
    \E fail \in BOOLEAN :
        /\ authPc["resetPassword"] = "sent"
        /\ Replied("resetPassword", "replied", IF fail THEN MsgBackend ELSE Null,
                   Null, FALSE)
        /\ out' = Quiet
        /\ UNCHANGED <<authVars, authBackend, bookVars, bookCalls, bookBackend>>

resetPasswordResume ==
    LET m == authMsg["resetPassword"] IN
    /\ authPc["resetPassword"] = "replied"
    /\ IF m.err # Null
       THEN /\ error' = m.err
            /\ out' = Out("resetPassword", "done", "void",
                          Toast("error", OrElse(m.err, "Failed to send reset instructions")))
       ELSE /\ out' = Out("resetPassword", "done", "void",
                          Toast("success", "Password reset Link have been sent to your email"))
            /\ UNCHANGED error
    /\ isLoading' = FALSE
    /\ Returned("resetPassword")
    /\ UNCHANGED <<user, isAuthenticated, location, authBackend, bookVars,
                   bookCalls, bookBackend>>

\* ---- updatePassword

updatePassword ==
    /\ CanStart("updatePassword")
    /\ isLoading' = TRUE
    /\ error' = Null
    /\ Sent("updatePassword", Null)
    /\ out' = Quiet
    /\ UNCHANGED <<user, isAuthenticated, location, authBackend, bookVars,
                   bookCalls, bookBackend>>

\* updateUser at the backend: it needs a session; a success notifies the
\* subscriber (USER_UPDATED) with that session before the call returns
updateUser ==
    \E fail \in BOOLEAN :
        /\ authPc["updatePassword"] = "sent"
        /\ IF session = Null
           THEN /\ Replied("updatePassword", "replied", MsgNoSession, Null, FALSE)
                /\ UNCHANGED <<user, isAuthenticated, isLoading>>
           ELSE IF fail
           THEN /\ Replied("updatePassword", "replied", MsgBackend, Null, FALSE)
                /\ UNCHANGED <<user, isAuthenticated, isLoading>>
           ELSE /\ onAuthStateChange(session)
                /\ Replied("updatePassword", "replied", Null, session, FALSE)
        /\ out' = Quiet
        /\ UNCHANGED <<error, location, authBackend>>

\* ... seen by the AuthProvider alone
UpdateUserBackend ==
    /\ updateUser
    /\ UNCHANGED <<bookVars, bookCalls, bookBackend>>

updatePasswordResume ==
    LET m == authMsg["updatePassword"] IN
    /\ authPc["updatePassword"] = "replied"
    /\ IF m.err # Null
       THEN /\ error' = m.err
            /\ out' = Out("updatePassword", "done", "void",
                          Toast("error", OrElse(m.err, "Failed to update password")))
            /\ UNCHANGED location
       ELSE /\ location' = RouteLogin
            /\ out' = Out("updatePassword", "done", "void",
                          Toast("success", "Password has been updated successfully"))
            /\ UNCHANGED error
    /\ isLoading' = FALSE
    /\ Returned("updatePassword")
    /\ UNCHANGED <<user, isAuthenticated, authBackend, bookVars, bookCalls,
                   bookBackend>>

\* ------------------------------------------- identity change, seen by the
\* BookReviewProvider: the notification handler replaces the user object and
\* the render that follows runs the provider's effect on [user]

IdentityChange ==
    \E s \in accounts \cup {Null} :
        /\ s # Null \/ user # Null
        /\ s # Null => InFlightBook < MaxInFlight
        /\ session' = s
        /\ onAuthStateChange(s)
        /\ UserEffect(s)
        /\ out' = Quiet
        /\ UNCHANGED <<error, location, authCalls, accounts, profiles, saves,
                       bookBackend>>

\* ---------------------------------------------------------- specifications

\* the state once both providers are mounted: useState's initial values,
\* then the mount effects (the BookReviewProvider's effect with no user,
\* then checkSession up to its await)
InitCommon ==
    /\ user = Null
    /\ isAuthenticated = FALSE
    /\ isLoading = TRUE
    /\ error = Null
    /\ location = "/"
    /\ authPc = [op \in AuthOps |-> IF op = "checkSession" THEN "sent" ELSE "idle"]
    /\ authMsg = [op \in AuthOps |-> IdleMsg]
    /\ profiles = accounts
    /\ todayBookReview = Null
    /\ isLoadingBookReview = FALSE
    /\ fetches = EmptyBag
    /\ saves = EmptyBag
    /\ store = {}
    /\ today = 1
    /\ out = Out("mount", "done", "-", ToastNone)

\* the Session Context: one account exists, a session may have been kept.
\* SpecAuth follows the AuthProvider alone; what the BookReviewProvider does
\* when the user changes is followed in Spec, through IdentityChange.
InitAuth ==
    /\ accounts = {"u1"}
    /\ session \in {Null, "u1"}
    /\ InitCommon

NextAuth ==
    \/ AuthEvent
    \/ GetSessionBackend \/ checkSessionResume
    \/ login \/ SignInBackend \/ loginResume
    \/ signup \/ SignUpBackend \/ signupResume \/ UpsertBackend \/ signupResume2
    \/ logout \/ SignOutBackend \/ logoutResume
    \/ resetPassword \/ ResetPasswordBackend \/ resetPasswordResume
    \/ updatePassword \/ UpdateUserBackend \/ updatePasswordResume

SpecAuth == InitAuth /\ [][NextAuth]_vars

\* the backend answers every request and the awaiting code then resumes;
\* nothing obliges the user to start an operation or a notification to come
FairAuth ==
    /\ WF_vars(GetSessionBackend) /\ WF_vars(checkSessionResume)
    /\ WF_vars(SignInBackend) /\ WF_vars(loginResume)
    /\ WF_vars(SignUpBackend) /\ WF_vars(signupResume)
    /\ WF_vars(UpsertBackend) /\ WF_vars(signupResume2)
    /\ WF_vars(SignOutBackend) /\ WF_vars(logoutResume)
    /\ WF_vars(ResetPasswordBackend) /\ WF_vars(resetPasswordResume)
    /\ WF_vars(UpdateUserBackend) /\ WF_vars(updatePasswordResume)

SpecAuthFair == SpecAuth /\ FairAuth

\* one thing at a time: an operation starts, and an unrelated notification
\* arrives, only when no Session Context operation is in flight
Quiescent == InFlightAuth = 0

NextAuthSeq ==
    \/ (Quiescent /\ AuthEvent)
    \/ GetSessionBackend \/ checkSessionResume
    \/ (Quiescent /\ login) \/ SignInBackend \/ loginResume
    \/ (Quiescent /\ signup) \/ SignUpBackend \/ signupResume \/ UpsertBackend
    \/ signupResume2
    \/ (Quiescent /\ logout) \/ SignOutBackend \/ logoutResume
    \/ (Quiescent /\ resetPassword) \/ ResetPasswordBackend \/ resetPasswordResume
    \/ (Quiescent /\ updatePassword) \/ UpdateUserBackend \/ updatePasswordResume

SpecAuthSeq == InitAuth /\ [][NextAuthSeq]_vars

\* the Daily-Record Context: both users have accounts, checkSession has
\* found no session
InitBook ==
    /\ accounts = Users
    /\ session = Null
    /\ InitCommon

NextBook ==
    \/ IdentityChange
    \/ FetchBackend \/ FetchResume
    \/ saveBookReviewForToday
    \/ SaveLookupResume
    \/ SaveWriteBackend \/ SaveWriteResume
    \/ Tick

Spec == InitBook /\ [][NextBook]_vars

\* saves one at a time: a save starts only when every earlier save has settled
saveAfterSettled == saves = EmptyBag /\ saveBookReviewForToday

NextSettled ==
    \/ IdentityChange
    \/ FetchBackend \/ FetchResume
    \/ saveAfterSettled
    \/ SaveLookupResume
    \/ SaveWriteBackend \/ SaveWriteResume
    \/ Tick

SpecSettled == InitBook /\ [][NextSettled]_vars

\* ==================================================================
\* Properties of the Daily-Record Context
\* ==================================================================

\* the save message m has been written by the backend without error
Written(m) == m.phase = "writeReplied" /\ m.code = "none"

\* this step completes the save whose message is m
SaveCompletes(m) == BagIn(m, saves) /\ saves' = saves (-) SetToBag({m})

\* this step completes the fetch whose message is m
FetchCompletes(m) == BagIn(m, fetches) /\ fetches' = fetches (-) SetToBag({m})

\* C2 (as claimed): in every reachable state the store holds at most one
\* book-review record per (user, date) pair, whatever the interleaving of
\* saves.
AtMostOneRecordPerUserDate ==
    \A u \in Users, d \in Days : Cardinality(Rows(u, d)) <= 1

\* C1: starting from an empty store, with each save started after the
\* previous one has settled, there is never more than one record per
\* (user, date); once the backend has carried out a save of content C by U
\* on D, the one record of (U, D) is {user_id: U, date: D, review_text: C},
\* and when the save found a record it is that same record (same id).
SettledSavesKeepOneRecord ==
    /\ \A u \in Users, d \in Days : Cardinality(Rows(u, d)) <= 1
    /\ \A m \in BagToSet(saves) :
          Written(m) =>
             \E r \in store :
                /\ Rows(m.user, m.date) = {r}
                /\ r.review_text = m.review
                /\ m.existing # {} => r.id \in m.existing

\* C1 witness: the current user's first save of today stored "a" (it is
\* on display) and a second save has updated that same record, the only
\* one in the store, to the empty text
SecondSaveUpdated ==
    \E m \in BagToSet(saves) :
        /\ Written(m)
        /\ m.existing = {1}
        /\ m.review = ""
        /\ m.user = user /\ m.date = today
        /\ todayBookReview = "a"
        /\ store = {[id |-> 1, user_id |-> m.user, date |-> m.date,
                     review_text |-> ""]}

\* C4 (as claimed): there is no state in which the current identity is a
\* user with no record, that user's fetch is still in flight, and
\* todayBookReview still holds a text (which can only be another user's).
NoStaleRecordWhileFetching ==
    \A u \in Users :
        ( /\ user = u
          /\ \E m \in BagToSet(fetches) : m.user = u
          /\ {r \in store : r.user_id = u} = {}
          /\ \A m \in BagToSet(saves) : m.user # u )
        => todayBookReview = Null

\* C7: a fetch answered with the not-found code PGRST116 completes with
\* todayBookReview = null, no notification, a normal return and
\* isLoadingBookReview false; and the backend answers a fetch for a (user,
\* date) without a record with that code and no data (or with a failure).
NotFoundIsEmptyNotError ==
    [][ \A m \in BagToSet(fetches) :
          /\ (m.phase = "replied" /\ m.code = "PGRST116" /\ FetchCompletes(m))
                => /\ todayBookReview' = Null
                   /\ isLoadingBookReview' = FALSE
                   /\ out' = Out("fetch", "done", "void", ToastNone)
          /\ (m.phase = "sent" /\ Rows(m.user, m.date) = {})
                => \A r \in BagToSet(fetches') :
                      (r.phase = "replied"
                         /\ fetches' = (fetches (-) SetToBag({m})) (+) SetToBag({r}))
                      => r.data = Null /\ r.code \in {"PGRST116", "other"}
      ]_vars

\* C7 witness: the fetch of the current user, who has no record for today,
\* has just completed quietly with an empty record
FetchedNothingQuietly ==
    /\ user # Null
    /\ Rows(user, today) = {}
    /\ fetches = EmptyBag
    /\ out = Out("fetch", "done", "void", ToastNone)
    /\ todayBookReview = Null
    /\ isLoadingBookReview = FALSE

\* C8: a save that completes without its write having succeeded (the lookup
\* failed with an error other than not-found, or the insert/update failed)
\* shows the failure notification, raises, and leaves isLoadingBookReview
\* false; and no step of a save other than its successful completion
\* changes todayBookReview.
FailedSaveReportsAndKeepsRecord ==
    [][ /\ \A m \in BagToSet(saves) :
              (SaveCompletes(m) /\ ~Written(m))
                 => /\ out' = Out("save", "done", "throw", ToastSaveFailed)
                    /\ isLoadingBookReview' = FALSE
                    /\ todayBookReview' = todayBookReview
        /\ (saves' # saves /\ ~\E m \in BagToSet(saves) : SaveCompletes(m) /\ Written(m))
              => todayBookReview' = todayBookReview
      ]_vars

\* C8 witness: a save has just failed while a record was on display
SaveFailedRecordKept ==
    /\ out = Out("save", "done", "throw", ToastSaveFailed)
    /\ todayBookReview = "a"
    /\ isLoadingBookReview = FALSE

\* C9: while there is no identity no step starts a save (no lookup is sent,
\* so no insert or update follows from it), and the step that reports the
\* missing identity returns normally and
\* changes neither the store nor the calls in flight nor todayBookReview nor
\* isLoadingBookReview.
SaveWithoutIdentityIsNoOp ==
    [][ /\ user = Null => \A m \in BagToSet(saves') :
                             m.phase = "lookupSent"
                                => CopiesIn(m, saves') <= CopiesIn(m, saves)
        /\ out'.toast = ToastMustLogin
              => /\ out'.ret = "void"
                 /\ user = Null
                 /\ UNCHANGED <<store, saves, fetches, todayBookReview,
                                isLoadingBookReview>>
      ]_vars

\* C9 witness: a save was refused for lack of an identity while the store
\* holds a record and loading is off
SaveRefusedWithoutIdentity ==
    /\ user = Null
    /\ out = Out("save", "done", "void", ToastMustLogin)
    /\ store # {}
    /\ saves = EmptyBag

\* ==================================================================
\* Properties of the Session Context
\* ==================================================================

\* steps of an operation, told by its position before and after
Starts(op) == authPc[op] = "idle" /\ authPc'[op] # "idle"
Returns(op) == authPc[op] # "idle" /\ authPc'[op] = "idle"
\* the backend accepts the login in this step
SignInAccepted ==
    /\ authPc["login"] = "sent" /\ authPc'["login"] = "replied"
    /\ authMsg'["login"].err = Null

\* C3 (as claimed): after a login that failed isAuthenticated is false and
\* error is non-empty; after a login that succeeded error is null and
\* isAuthenticated is true.
LoginOutcomeAsClaimed ==
    /\ (out.op = "login" /\ out.toast.kind = "error")
          => isAuthenticated = FALSE /\ error # Null /\ error # ""
    /\ (out.op = "login" /\ out.toast.kind = "success")
          => error = Null /\ isAuthenticated = TRUE

\* C3 (amended): for a login call that no other operation or notification
\* overlaps: when it fails, error is non-empty and no step of the call has
\* changed isAuthenticated; when it succeeds, error is null and
\* isAuthenticated is true, the user being the one who logged in.
LoginOutcome ==
    [][ /\ (Returns("login") /\ authMsg["login"].err # Null)
              => error' = authMsg["login"].err /\ error' # Null /\ error' # ""
        /\ (authPc'["login"] # authPc["login"] /\ ~SignInAccepted)
              => isAuthenticated' = isAuthenticated /\ user' = user
        /\ (Returns("login") /\ authMsg["login"].err = Null)
              => /\ error' = Null
                 /\ isAuthenticated' = TRUE
                 /\ user' = authMsg["login"].email
      ]_vars

\* C3 witness: a login has just succeeded, so an error of an earlier failed
\* login is gone
LoggedIn ==
    /\ out = Out("login", "done", "void", Toast("success", "Welcome back!"))
    /\ error = Null
    /\ isAuthenticated = TRUE
    /\ user = "u1"
    /\ location = RouteDashboard

\* C5: a signup the backend refuses as already registered makes no account
\* at the backend; the call then returns null without sending the profile
\* upsert, sets the 'already registered' error and notification and
\* navigates to the login route, and accounts and profiles are as before.
SignupOfRegisteredEmail ==
    [][ /\ (authPc["signup"] = "sent" /\ authMsg["signup"].email \in accounts
              /\ authPc'["signup"] # "sent")
              => /\ accounts' = accounts
                 /\ authMsg'["signup"].created = FALSE
                 /\ authMsg'["signup"].data = Null
        /\ (authPc["signup"] = "replied"
              /\ authMsg["signup"].err = MsgAlreadyRegistered
              /\ authPc'["signup"] # "replied")
              => /\ authPc'["signup"] = "idle"
                 /\ out' = Out("signup", "done", "null", Toast("error", MsgEmailExists))
                 /\ error' = MsgEmailExists
                 /\ location' = RouteEmailExists
                 /\ accounts' = accounts
                 /\ profiles' = profiles
      ]_vars

\* C5 witness: signup has just reported a registered email
SignupRefused ==
    /\ out = Out("signup", "done", "null", Toast("error", MsgEmailExists))
    /\ error = MsgEmailExists
    /\ location = RouteEmailExists
    /\ authPc["signup"] = "idle"

\* C6 (as claimed): signup returns the non-null result if and only if that
\* call created a new account at the backend.
SignupResultIffCreated ==
    [][ Returns("signup")
          => (out'.ret = SignupResult <=> authMsg["signup"].created) ]_vars

\* C6 (amended): signup returns the non-null result exactly when that call
\* created a new account and its profile write succeeded; otherwise it
\* returns null, also when the account was created and only the profile
\* write failed.
SignupResultIffCreatedAndProfiled ==
    [][ Returns("signup")
          => /\ out'.op = "signup"
             /\ out'.ret \in {SignupResult, "null"}
             /\ out'.ret = SignupResult
                   <=> /\ authMsg["signup"].created
                       /\ authPc["signup"] = "replied2"
                       /\ authMsg["signup"].err = Null
                       /\ authMsg["signup"].data \in profiles
      ]_vars

\* C6 witness: signup has returned null although its call created the
\* account u2: the profile write failed
SignupNullAfterAccountCreated ==
    /\ out = Out("signup", "done", "null", Toast("error", MsgBackend))
    /\ "u2" \in accounts
    /\ "u2" \notin profiles

\* C10: every Session Context operation that is in flight eventually
\* completes, and the step that completes it leaves isLoading false.
EveryOperationEndsLoading ==
    \A op \in AuthOps :
        (authPc[op] # "idle")
           ~> (authPc[op] = "idle" /\ out.op = op /\ out.ev = "done"
                 /\ isLoading = FALSE)

\* C10 witness: signup has completed through its early return and nothing
\* is in flight: the loading flag is off
EarlyReturnEndedLoading ==
    /\ out = Out("signup", "done", "null", Toast("error", MsgEmailExists))
    /\ InFlightAuth = 0
    /\ isLoading = FALSE

\* C11: getSession is answered either with the backend's current session
\* (which may be none) or with an error, and checkSession then ends in the
\* one outcome that matches the answer: a session gives user = the identity
\* of that session and isAuthenticated true; no session gives user null and
\* isAuthenticated false; an error gives error = its message, user null and
\* isAuthenticated false.  In all three isLoading is false afterwards.
CheckSessionOutcome ==
    [][ /\ (authPc["checkSession"] = "sent" /\ authPc'["checkSession"] = "replied")
              => LET r == authMsg'["checkSession"] IN
                 \/ r.err # Null /\ r.data = Null
                 \/ r.err = Null /\ r.data = session
        /\ Returns("checkSession")
              => LET m == authMsg["checkSession"] IN
                 /\ isLoading' = FALSE
                 /\ (m.err = Null /\ m.data # Null)
                       => user' = m.data /\ isAuthenticated' = TRUE
                 /\ (m.err = Null /\ m.data = Null)
                       => user' = Null /\ isAuthenticated' = FALSE
                 /\ m.err # Null
                       => error' = m.err /\ user' = Null /\ isAuthenticated' = FALSE
      ]_vars

\* C11 witness: checkSession has just ended on a backend error although the
\* backend holds a session: the error is recorded and the identity is clear
CheckSessionFailed ==
    /\ out = Out("checkSession", "done", "void", ToastNone)
    /\ session = "u1"
    /\ error = MsgBackend
    /\ user = Null
    /\ isAuthenticated = FALSE
    /\ isLoading = FALSE

\* the backend carries out the sign-out in this step
SignOutAccepted ==
    /\ authPc["logout"] = "sent" /\ authPc'["logout"] = "replied"
    /\ authMsg'["logout"].err = Null
\* the backend carries out the password update in this step
UserUpdated ==
    /\ authPc["updatePassword"] = "sent" /\ authPc'["updatePassword"] = "replied"
    /\ authMsg'["updatePassword"].err = Null
\* this step delivers a session-change notification whose session is s
NotifiedWith(s) ==
    \/ AuthEvent /\ s = session'
    \/ SignInAccepted /\ s = authMsg'["login"].data
    \/ SignOutAccepted /\ s = Null
    \/ UserUpdated /\ s = session

\* C12: after every session-change notification user and isAuthenticated
\* reflect that notification's session alone: a session gives user = its
\* identity and isAuthenticated true, no session gives user null and
\* isAuthenticated false, whatever the state before and whatever the event
\* (sign-in, sign-out, user update, or one no call of this client caused).
NotificationDecidesIdentity ==
    [][ \A s \in Users \cup {Null} :
          NotifiedWith(s)
             => /\ user' = s
                /\ isAuthenticated' = (s # Null)
                /\ s = session'
      ]_vars

\* C12 witness: the sign-out notification has just been delivered to a
\* client that still shows the error of an earlier failed call: the
\* identity is cleared
SignedOutNotified ==
    /\ authPc["logout"] = "replied"
    /\ authMsg["logout"].err = Null
    /\ session = Null
    /\ user = Null
    /\ isAuthenticated = FALSE
    /\ error = MsgBackend

\* C13 (as claimed): when a logout call completes successfully, user is
\* null, isAuthenticated is false and the application is on the login route.
LogoutClearsIdentityAsClaimed ==
    [][ (Returns("logout") /\ authMsg["logout"].err = Null)
          => /\ user' = Null
             /\ isAuthenticated' = FALSE
             /\ location' = RouteLogin
      ]_vars

\* C13 (amended): the sign-out the backend carries out clears the identity
\* through its notification (user null, isAuthenticated false); the logout
\* call that then completes navigates to the login route and itself writes
\* neither user nor isAuthenticated; between the two only a session-change
\* notification or the completion of a checkSession still in flight changes
\* them.
LogoutClearsIdentity ==
    [][ /\ SignOutAccepted
              => user' = Null /\ isAuthenticated' = FALSE /\ session' = Null
        /\ (Returns("logout") /\ authMsg["logout"].err = Null)
              => /\ location' = RouteLogin
                 /\ user' = user
                 /\ isAuthenticated' = isAuthenticated
        /\ ( /\ authPc["logout"] = "replied" /\ authMsg["logout"].err = Null
             /\ (user' # user \/ isAuthenticated' # isAuthenticated) )
              => \/ Returns("checkSession")
                 \/ \E s \in Users \cup {Null} : NotifiedWith(s)
      ]_vars

\* C13 witness: a logout has just completed successfully: no session, no
\* identity, and the application is on the login route
LoggedOut ==
    /\ out = Out("logout", "done", "void", Toast("success", "You've been logged out"))
    /\ session = Null
    /\ user = Null
    /\ isAuthenticated = FALSE
    /\ location = RouteLogin

\* C15 (as claimed): every Session Context operation sets error to null
\* when it starts, and after an operation has completed successfully no
\* error message of an earlier operation is still present.
ErrorResetAtEveryBoundary ==
    [][ \A op \in AuthOps :
          /\ Starts(op) => error' = Null
          /\ (Returns(op) /\ authMsg[op].err = Null) => error' = Null
      ]_vars

\* C16 (as claimed, for the operations of the Session Context): every
\* operation that completes on a failure of its backend call shows an error
\* notification when it completes.
EveryFailureIsNotified ==
    [][ \A op \in AuthOps :
          (Returns(op) /\ authMsg[op].err # Null)
             => out'.op = op /\ out'.toast.kind = "error"
      ]_vars

\* C17: when saveBookReviewForToday(C) completes after its write succeeded,
\* todayBookReview equals C, the success notification is shown, the call
\* returns normally and isLoadingBookReview is false.
SavedContentIsShown ==
    [][ \A m \in BagToSet(saves) :
          (SaveCompletes(m) /\ Written(m))
             => /\ todayBookReview' = m.review
                /\ out' = Out("save", "done", "void", ToastSaved)
                /\ isLoadingBookReview' = FALSE
      ]_vars

\* C17 witness: a save of the empty text has just succeeded: the empty
\* text, not null, is on display and in the store
SavedEmptyTextShown ==
    /\ out = Out("save", "done", "void", ToastSaved)
    /\ user # Null
    /\ store = {[id |-> 1, user_id |-> user, date |-> today, review_text |-> ""]}
    /\ todayBookReview = ""
    /\ isLoadingBookReview = FALSE
    /\ saves = EmptyBag

\* C19: a fetch in flight is not cancelled by an identity change (every
\* fetch in flight before the change is in flight after it), and the answer
\* of a fetch that did not fail is applied to todayBookReview when it
\* arrives, whoever the current identity is.  The state the claim names is
\* the witness below.
StaleFetchIsApplied ==
    [][ /\ user' # user
              => \A m \in BagToSet(fetches) :
                    CopiesIn(m, fetches') >= CopiesIn(m, fetches)
        /\ \A m \in BagToSet(fetches) :
              (m.phase = "replied" /\ ~FetchThrows(m) /\ FetchCompletes(m))
                 => todayBookReview' = OrNull(m.data)
      ]_vars

\* C19 witness: the identity is u2, who has no record at all; no fetch is
\* in flight, so the fetch made for u2 has resolved; and the fetch that has
\* just completed put u1's text "a" on display
StaleFetchOverwrote ==
    /\ user = "u2"
    /\ fetches = EmptyBag
    /\ saves = EmptyBag
    /\ out = Out("fetch", "done", "void", ToastNone)
    /\ {r \in store : r.user_id = "u2"} = {}
    /\ \E r \in store : r.user_id = "u1" /\ r.review_text = "a"
    /\ todayBookReview = "a"

\* C20: a fetch answered with a backend error other than not-found
\* completes with the failure notification, a normal return and
\* isLoadingBookReview false, and leaves todayBookReview as it is; nor does
\* any earlier step of a fetch (its start on an identity change, the
\* backend answering it) change todayBookReview.
FailedFetchReportsAndKeepsRecord ==
    [][ /\ \A m \in BagToSet(fetches) :
              (m.phase = "replied" /\ m.code = "other" /\ FetchCompletes(m))
                 => /\ out' = Out("fetch", "done", "void", ToastLoadFailed)
                    /\ isLoadingBookReview' = FALSE
                    /\ todayBookReview' = todayBookReview
        /\ ( /\ fetches' # fetches
             /\ ~\E m \in BagToSet(fetches) : m.phase = "replied" /\ FetchCompletes(m) )
              => todayBookReview' = todayBookReview
      ]_vars

\* C20 witness: the fetch made for u2, who has no record and has saved
\* nothing, has just failed: the text on display is still the one loaded
\* for the previous identity
FetchFailedRecordKept ==
    /\ out = Out("fetch", "done", "void", ToastLoadFailed)
    /\ user = "u2"
    /\ {r \in store : r.user_id = "u2"} = {}
    /\ fetches = EmptyBag
    /\ saves = EmptyBag
    /\ todayBookReview = "a"
    /\ isLoadingBookReview = FALSE

\* ==================================================================
\* The application: the BookReviewProvider below the AuthProvider
\* ==================================================================

\* the BookReviewProvider's effect on [user] after a step of the
\* AuthProvider: it runs in the render that follows a setUser with a new
\* user object, or with null in place of a user (ran)
EffectAfter(ran) ==
    /\ (ran /\ user' # Null) => InFlightBook < MaxInFlight
    /\ IF ran
       THEN UserEffect(user')
       ELSE UNCHANGED <<todayBookReview, isLoadingBookReview, fetches>>
    /\ UNCHANGED <<saves, bookBackend>>

\* checkSession calls setUser on each of its paths
checkSessionThenEffect ==
    /\ checkSessionAfterAwait
    /\ EffectAfter(user' # Null \/ user # Null)

\* the notifications of the backend's own calls reach the callback, and
\* the callback calls setUser
SignInThenEffect ==
    /\ signInWithPassword
    /\ EffectAfter(SignInAccepted)

SignOutThenEffect ==
    /\ signOut
    /\ EffectAfter(SignOutAccepted /\ user # Null)

UpdateUserThenEffect ==
    /\ updateUser
    /\ EffectAfter(UserUpdated)

\* one call at a time: the user starts a call, and a notification that no
\* call caused arrives, only when nothing is in flight
AppIdle == InFlightAuth = 0 /\ InFlightBook = 0

NextApp ==
    \/ (AppIdle /\ IdentityChange)
    \/ GetSessionBackend \/ checkSessionThenEffect
    \/ (AppIdle /\ login) \/ SignInThenEffect \/ loginResume
    \/ (AppIdle /\ signup) \/ SignUpBackend \/ signupResume \/ UpsertBackend
    \/ signupResume2
    \/ (AppIdle /\ logout) \/ SignOutThenEffect \/ logoutResume
    \/ (AppIdle /\ resetPassword) \/ ResetPasswordBackend \/ resetPasswordResume
    \/ (AppIdle /\ updatePassword) \/ UpdateUserThenEffect \/ updatePasswordResume
    \/ FetchBackend \/ FetchResume
    \/ (AppIdle /\ saveBookReviewForToday)
    \/ SaveLookupResume
    \/ SaveWriteBackend \/ SaveWriteResume
    \/ Tick

SpecApp == InitAuth /\ [][NextApp]_vars

\* C14: whatever the backend answers, every Session Context operation
\* (checkSession, login, signup, logout, resetPassword, updatePassword)
\* returns normally to its caller when it completes, and so does the
\* daily-record fetch; a save that completes without its write having
\* succeeded raises, and no other completion raises.
OnlySaveRaises ==
    [][ /\ \A op \in AuthOps :
              Returns(op) => /\ out'.op = op
                             /\ out'.ev = "done"
                             /\ out'.ret # "throw"
        /\ \A m \in BagToSet(fetches) :
              (m.phase = "replied" /\ FetchCompletes(m))
                 => out'.op = "fetch" /\ out'.ret = "void"
        /\ \A m \in BagToSet(saves) :
              (SaveCompletes(m) /\ ~Written(m))
                 => out'.op = "save" /\ out'.ret = "throw"
        /\ out'.ret = "throw" => out'.op = "save"
      ]_vars

\* C14 witness: a save has just raised its failure to the caller, while
\* error still holds the message of a Session Context call that failed and
\* returned normally
SaveRaisedAfterAbsorbedFailure ==
    /\ out = Out("save", "done", "throw", ToastSaveFailed)
    /\ error = MsgBackend
    /\ user # Null
    /\ InFlightAuth = 0

\* ==================================================================
\* The hooks useAuth and useBookReview
\* ==================================================================

\* createContext(undefined): the value seen where no provider encloses the
\* caller.  A context value is written as a set: {} for undefined, {v} for
\* the value v a provider supplies
Undefined == {}

\* the values the providers supply (their data; the operations are the
\* actions above)
AuthContextValue ==
    [isAuthenticated |-> isAuthenticated, user |-> user, isLoading |-> isLoading,
     error |-> error]
BookReviewContextValue ==
    [todayBookReview |-> todayBookReview, isLoadingBookReview |-> isLoadingBookReview]

\* useContext(...) for a caller inside, or not inside, the provider's subtree
useContext(value, inside) == IF inside THEN {value} ELSE Undefined

\* throw new Error(message) / return context
Raise(message) == [raised |-> TRUE, message |-> message, value |-> Undefined]
Return(context) == [raised |-> FALSE, message |-> "", value |-> context]

\* (mutant) the hook hands on whatever useContext gave it
useAuthUnguarded(inside) ==
    LET context == useContext(AuthContextValue, inside)
    IN  Return(context)

useAuth(inside) ==
    LET context == useContext(AuthContextValue, inside)
    IN  IF context = Undefined
        THEN Raise("useAuth must be used within an AuthProvider")
        ELSE Return(context)

useBookReview(inside) ==
    LET context == useContext(BookReviewContextValue, inside)
    IN  IF context = Undefined
        THEN Raise("useBookReview must be used within a BookReviewProvider")
        ELSE Return(context)

\* out after a call of a hook: where the caller was and what it got
HookOut(op, inside, result) ==
    [op |-> op, ev |-> "done", ret |-> IF result.raised THEN "throw" ELSE "context",
     toast |-> ToastNone, inside |-> inside, result |-> result]

\* a component renders and calls the hook
useAuthCall ==
    \E inside \in BOOLEAN :
        /\ out' = HookOut("useAuth", inside, useAuth(inside))
        /\ UNCHANGED <<authVars, authCalls, authBackend, bookVars, bookCalls,
                       bookBackend>>

useBookReviewCall ==
    \E inside \in BOOLEAN :
        /\ out' = HookOut("useBookReview", inside, useBookReview(inside))
        /\ UNCHANGED <<authVars, authCalls, authBackend, bookVars, bookCalls,
                       bookBackend>>

\* components render, inside and outside the providers, while the
\* application runs
NextHooks == NextApp \/ useAuthCall \/ useBookReviewCall

SpecHooks == InitAuth /\ [][NextHooks]_vars

\* C18: a call of useAuth or useBookReview raises exactly when no provider
\* encloses the caller (the context value is undefined), with the hook's
\* own message; inside the provider it returns the value the provider
\* supplies, whatever that value is.
HooksRaiseOnlyOutsideProvider ==
    out.op \in {"useAuth", "useBookReview"}
       => /\ out.result.raised <=> ~out.inside
          /\ out.ret = "throw" <=> out.result.raised
          /\ out.result.raised
                => out.result.message =
                      (IF out.op = "useAuth"
                       THEN "useAuth must be used within an AuthProvider"
                       ELSE "useBookReview must be used within a BookReviewProvider")
          /\ out.inside
                => out.result.value =
                      (IF out.op = "useAuth" THEN {AuthContextValue}
                       ELSE {BookReviewContextValue})

\* C18 witness: useAuth has just raised for a caller outside the provider,
\* at a moment when the provider holds an identity and an error message
UseAuthRaisedOutside ==
    /\ out.op = "useAuth"
    /\ out.ret = "throw"
    /\ out.inside = FALSE
    /\ user # Null
    /\ error # Null

\* ==================================================================
\* The Identity derived from a session
\* ==================================================================
\* In the specifications above the Identity is followed by its id alone.
\* Here it is derived in full.  A text is a sequence of characters, and an
\* optional field of the session is written like a context value: {} when
\* it is undefined, {t} when it is the text t.

Chars == {"a", "@"}
Texts(n) == UNION {[1..k -> Chars] : k \in 0..n}
Empty == <<>>

\* the user objects a session may carry
SessionUsers ==
    [id : Users,
     email : {Undefined} \cup {{t} : t \in Texts(MaxEmailLen)},
     phone : {Undefined, {Empty}, {<<"a">>}},
     user_metadata : [name : {Undefined, {Empty}, {<<"a">>}}]]

\* `a || b` on optional texts: undefined and the empty text are falsy
Or(a, b) == IF a = Undefined \/ a = {Empty} THEN b ELSE a

\* text.split(sep): the pieces between the separators, at least one piece
RECURSIVE split(_, _)
split(text, sep) ==
    LET at == {i \in 1..Len(text) : text[i] = sep}
    IN  IF at = {}
        THEN <<text>>
        ELSE LET i == CHOOSE i \in at : \A j \in at : i <= j
             IN  <<SubSeq(text, 1, i - 1)>> \o split(SubSeq(text, i + 1, Len(text)), sep)

\* email?.split("@")[0]
EmailLocalPart(email) ==
    IF email = Undefined
    THEN Undefined
    ELSE {split(CHOOSE t \in email : TRUE, "@")[1]}

\* (mutant) the display name falls back to the whole email address
checkSessionIdentityWholeEmail(s) ==
    [id |-> s.id,
     name |-> Or(Or(s.user_metadata.name, s.email), {<<"U", "s", "e", "r">>}),
     email |-> Or(s.email, {Empty}),
     phone |-> Or(s.phone, {Empty})]

\* the object checkSession passes to setUser
checkSessionIdentity(s) ==
    [id |-> s.id,
     name |-> Or(Or(s.user_metadata.name, EmailLocalPart(s.email)),
                 {<<"U", "s", "e", "r">>}),
     email |-> Or(s.email, {Empty}),
     phone |-> Or(s.phone, {Empty})]

\* the object the onAuthStateChange callback passes to setUser
onAuthStateChangeIdentity(s) ==
    [id |-> s.id,
     name |-> Or(Or(s.user_metadata.name, EmailLocalPart(s.email)),
                 {<<"U", "s", "e", "r">>}),
     email |-> Or(s.email, {Empty}),
     phone |-> Or(s.phone, {Empty})]

\* checkSession when getSession answers with the session
checkSessionWithSession ==
    /\ authPc["checkSession"] = "sent"
    /\ user' = checkSessionIdentity(session)
    /\ isAuthenticated' = TRUE
    /\ isLoading' = FALSE
    /\ Returned("checkSession")
    /\ out' = Out("checkSession", "done", "void", ToastNone)
    /\ UNCHANGED <<error, location, authBackend, bookVars, bookCalls, bookBackend>>

\* the callback when a notification carries a session
NotifiedWithSession ==
    \E s \in SessionUsers :
        /\ session' = s
        /\ user' = onAuthStateChangeIdentity(s)
        /\ isAuthenticated' = TRUE
        /\ isLoading' = FALSE
        /\ out' = Out("onAuthStateChange", "done", "void", ToastNone)
        /\ UNCHANGED <<error, location, authCalls, accounts, profiles, bookVars,
                       bookCalls, bookBackend>>

InitIdentity ==
    /\ accounts = Users
    /\ session \in SessionUsers
    /\ InitCommon

NextIdentity == checkSessionWithSession \/ NotifiedWithSession

SpecIdentity == InitIdentity /\ [][NextIdentity]_vars

\* the part of a text before its first "@": its longest prefix without one
BeforeAt(text) ==
    LET n == CHOOSE k \in 0..Len(text) :
                /\ \A i \in 1..k : text[i] # "@"
                /\ k < Len(text) => text[k + 1] = "@"
    IN  SubSeq(text, 1, n)

\* the Identity as the claim words it
IdentityAsWorded(s) ==
    LET name == s.user_metadata.name
        local == IF s.email = Undefined THEN Empty
                 ELSE BeforeAt(CHOOSE t \in s.email : TRUE)
    IN  [id |-> s.id,
         name |-> IF name # Undefined /\ name # {Empty} THEN name
                  ELSE IF local # Empty THEN {local}
                  ELSE {<<"U", "s", "e", "r">>},
         email |-> IF s.email = Undefined THEN {Empty} ELSE s.email,
         phone |-> IF s.phone = Undefined THEN {Empty} ELSE s.phone]

\* C21: the Identity set from a session is {id, name, email, phone} with
\* name = the metadata name when non-empty, else the part of the email
\* before "@" when non-empty, else "User", and with email and phone the
\* empty text when absent; and checkSession and the notification handler
\* derive the same Identity from every session.
IdentityDerivation ==
    /\ isAuthenticated => user = IdentityAsWorded(session)
    /\ \A s \in SessionUsers :
          /\ checkSessionIdentity(s) = onAuthStateChangeIdentity(s)
          /\ checkSessionIdentity(s) = IdentityAsWorded(s)

\* C21 witness: checkSession has derived the Identity of a session with an
\* empty metadata name, an email that starts with "@" and no phone: the
\* name is "User", the email is kept and the phone is the empty text
NameDefaultedToUser ==
    /\ out.op = "checkSession"
    /\ isAuthenticated
    /\ session.user_metadata.name = {Empty}
    /\ session.email = {<<"@", "a">>}
    /\ session.phone = Undefined
    /\ user.name = {<<"U", "s", "e", "r">>}
    /\ user.email = {<<"@", "a">>}
    /\ user.phone = {Empty}

\* C22: in every reachable state of the Session Context isAuthenticated is
\* true exactly when user is non-null, and only the completion of
\* checkSession and the delivery of a session-change notification change
\* user or isAuthenticated: no step of login, signup, logout, resetPassword
\* or updatePassword itself does.
AuthenticatedIffUser ==
    [][ /\ isAuthenticated <=> user # Null
        /\ isAuthenticated' <=> user' # Null
        /\ (user' # user \/ isAuthenticated' # isAuthenticated)
              => \/ Returns("checkSession")
                 \/ \E s \in Users \cup {Null} : NotifiedWith(s)
      ]_vars

\* C22 witness: a logout has just failed while u1 is signed in: the
\* identity and the authenticated status are both still there
LogoutFailedStillAuthenticated ==
    /\ out = Out("logout", "done", "void", Toast("error", MsgBackend))
    /\ session = "u1"
    /\ user = "u1"
    /\ isAuthenticated = TRUE

\* C23 (as claimed): isLoading is true in every state in which at least one
\* Session Context operation has started and not yet completed.
LoadingWhileOperationInFlight ==
    InFlightAuth > 0 => isLoading = TRUE

\* C24 (as claimed): isLoadingBookReview is true in every state in which a
\* daily-record fetch or save is in flight.
LoadingWhileBookCallInFlight ==
    InFlightBook > 0 => isLoadingBookReview = TRUE

\* ==================================================================
\* One identity, one day
\* ==================================================================

\* the session-change notifications all carry the session of u1 (sign-in,
\* then token refreshes), and the clock stays within the day
OneIdentity == IdentityChange /\ session' = "u1"

NextOneUser ==
    \/ OneIdentity
    \/ FetchBackend \/ FetchResume
    \/ saveBookReviewForToday
    \/ SaveLookupResume
    \/ SaveWriteBackend \/ SaveWriteResume

SpecOneUser == InitBook /\ [][NextOneUser]_vars

\* C25 (as claimed): for the fixed identity u1 and day, once every fetch
\* and save in flight has settled and a save has stored the one record of
\* (u1, today), todayBookReview shows the review_text of that record (an
\* empty text may show as null); no fetch that read the store earlier has
\* put its older or empty result in its place.
SettledShowsStoredText ==
    (user = "u1" /\ fetches = EmptyBag /\ saves = EmptyBag)
       => \A r \in store :
             Rows("u1", today) = {r}
                => OrNull(todayBookReview) = OrNull(r.review_text)

\* ==================================================================
\* Saves over a full table
\* ==================================================================

\* a save by a user whose one record of today is stored, with no other
\* save in flight, finds that record and updates it: it needs no room
saveOverRecord ==
    saveWhen(saves = EmptyBag /\ Cardinality(Rows(user, today)) = 1)

NextRows == NextBook \/ saveOverRecord

SpecRows == InitBook /\ [][NextRows]_vars

\* C26: no step deletes a record or changes a record's id, user_id or
\* date; the store changes only when the backend carries out the write of
\* a save, and that write adds or changes only a record of the save's own
\* user and date, which gets the save's content; the user and date of a
\* save are the identity and the day at the moment it started and stay so
\* while it is in flight, whatever the identity becomes.
SaveWritesOnlyItsRecord ==
    [][ /\ \A r \in store :
              \E r2 \in store' :
                 r2.id = r.id /\ r2.user_id = r.user_id /\ r2.date = r.date
        /\ store' # store
              => \E m \in BagToSet(saves) :
                    /\ m.phase = "writeSent"
                    /\ BagIn([m EXCEPT !.phase = "writeReplied"], saves')
                    /\ Cardinality(store') <= Cardinality(store) + 1
                    /\ \A r \in store \ store' :
                          r.user_id = m.user /\ r.date = m.date
                    /\ \A r \in store' \ store :
                          /\ r.user_id = m.user /\ r.date = m.date
                          /\ r.review_text = m.review
        /\ \A m \in BagToSet(saves') :
              CopiesIn(m, saves') > CopiesIn(m, saves)
                 => IF m.phase = "lookupSent"
                    THEN m.user = user /\ m.date = today
                    ELSE \E m0 \in BagToSet(saves) :
                            /\ m0.user = m.user /\ m0.date = m.date
                            /\ m0.review = m.review
                            /\ CopiesIn(m0, saves') < CopiesIn(m0, saves)
      ]_vars

\* C26 witness: u2 started a save of the empty text over their record, the
\* identity then changed to u1, and the backend has carried out the update:
\* u2's record holds the empty text and u1's record still holds "a"
UpdatedForCapturedIdentity ==
    \E m \in BagToSet(saves) :
        /\ Written(m)
        /\ m.user = "u2"
        /\ m.review = ""
        /\ user = "u1"
        /\ \E r1, r2 \in store :
              /\ r1.user_id = "u1" /\ r1.review_text = "a"
              /\ r2.user_id = "u2" /\ r2.review_text = ""
              /\ m.existing = {r2.id}

====
